---- MODULE Spec2Model ----
(***************************************************************************)
(* Model of the comette (qpmu) plugin host.                                *)
(*                                                                         *)
(*   src/src/plugins.rs      process_ui_event: the lazily initialised      *)
(*                           plugin registry (CELL, cell_init), the prefix *)
(*                           router for InputChanged events and the        *)
(*                           Activate event; DeferredAction::run with the  *)
(*                           io::Error conversion.                         *)
(*   src/qpmu-api/src/lib.rs the remote plugin server: the query, activate *)
(*                           and complete handlers with the activation     *)
(*                           table upsert; main and print_error; Input and *)
(*                           SelectionRange.                               *)
(*                                                                         *)
(* Specifications: Spec (one future, event after event), SpecConc (futures *)
(* in flight together, with a history), SpecStore (the server's handlers), *)
(* SpecMain (start-up of the plugin process), SpecInput (building an       *)
(* Input), SpecDefer (a deferred spawn).                                   *)
(*                                                                         *)
(* Strings are sequences of one-character strings, so that strip_prefix    *)
(* is computed character by character as the code computes it.             *)
(***************************************************************************)
EXTENDS Integers, Sequences, FiniteSets, TLC

\* ------------------------------------------------------------------ bounds
\* Number of concurrently live process_ui_event futures.
MaxTasks == 1
\* Longest plugin list of the configuration file.
MaxPlugins == 3
\* Longest result list a plugin answers with.
MaxListLen == 1

\* Number of activate requests the plugin server receives.
MaxCalls == 2
\* Latest reading of the wall clock.
MaxClock == 2

\* Longest query text an Input is built from.
MaxInputLen == 3

\* Longest cause chain of an anyhow::Error.
MaxChain == 2

\* Number of process_ui_event futures in flight together in the concurrent
\* specification.
MaxConcTasks == 2

Tasks == 1..MaxTasks
ConcTasks == 1..MaxConcTasks
Calls == 1..MaxCalls

\* ------------------------------------------------------------------ strings
GHello == <<"g", " ", "h", "e", "l", "l", "o">>
SpHello == <<" ", "h", "e", "l", "l", "o">>
Hello == <<"h", "e", "l", "l", "o">>

\* The prefixes a configured plugin may carry (the empty prefix is "always
\* eligible").
Prefixes == { <<>>, <<"g">> }

\* The queries the user types.
Queries == { <<>>, <<"h">>, GHello }

SeqsUpTo(S, n) == UNION { [1..k -> S] : k \in 0..n }

\* Option<T>
None == [some |-> FALSE]
Some(v) == [some |-> TRUE, val |-> v]

\* Faulty variants of strip_prefix: one compares lengths only, one hands back
\* the whole query.
strip_prefix_nocheck(q, p) ==
    IF Len(p) <= Len(q) THEN Some(SubSeq(q, Len(p) + 1, Len(q))) ELSE None

strip_prefix_keep(q, p) ==
    IF Len(p) <= Len(q) /\ \A k \in 1..Len(p) : q[k] = p[k]
    THEN Some(q)
    ELSE None

\* str::strip_prefix as called at plugins.rs:124: the remainder of q after a
\* literal leading p, or None.

strip_prefix(q, p) ==
    IF Len(p) <= Len(q) /\ \A k \in 1..Len(p) : q[k] = p[k]
    THEN Some(SubSeq(q, Len(p) + 1, Len(q)))
    ELSE None

\* ------------------------------------------------------------------ state
VARIABLES
    config,     \* Config.plugins: the configured plugins' prefixes, in order
    CELL,       \* static CELL: OnceCell<Vec<Plugin>>
    permit,     \* the task running cell_init inside get_or_init, or 0
    fut,        \* the from_config futures of cell_init, by config position
    next_out,   \* FuturesOrdered: the position whose output is yielded next
    vec,        \* the Vec being collected by cell_init
    overtook,   \* some from_config completed while an earlier one was pending
    pc,         \* per task: position in process_ui_event
    query,      \* per task: the query of its InputChanged event
    idx,        \* per task: position of the for loop over the registry
    result,     \* per task: the value process_ui_event returned
    calls,      \* per task: the complete_query calls it made, in order
    events,     \* history: dispatches, loads and returns so far, in order
    table,      \* the activations table: rows (title, frequency, last_use)
    clock,      \* time::OffsetDateTime::now_utc()
    req,        \* per activate request of the plugin server: its progress
    resp,       \* the response to the latest query or complete request
    mpc,        \* main: position in the start-up sequence
    argv,       \* main: std::env::args()
    port,       \* main: listener.local_addr()?.port()
    stdout,     \* main: the lines written to standard output
    exit_code,  \* main: the status given to std::process::exit, or -1
    failure,    \* main: the cause chain of the error main ended with, or <<>>
    input,      \* the Input value being built
    how,        \* the operation that produced input
    dpc,        \* DeferredAction::run: position
    dcmd,       \* DeferredAction::Spawn: the command and its arguments
    dio,        \* DeferredAction::spawn: the io::Error that was raised, if any
    dres        \* DeferredAction::run: the DeferredResult

routerVars == <<config, CELL, permit, fut, next_out, vec, overtook, pc, query, idx, result, calls, events>>
storeVars == <<table, clock, req, resp>>
mainVars == <<mpc, argv, port, stdout, exit_code, failure>>
inputVars == <<input, how>>
deferVars == <<dpc, dcmd, dio, dres>>
vars == <<routerVars, storeVars, mainVars, inputVars, deferVars>>

\* Everything a step of process_ui_event leaves alone / a step of the plugin
\* server's handlers leaves alone.
outsideRouter == <<storeVars, mainVars, inputVars, deferVars>>
outsideStore == <<routerVars, mainVars, inputVars, deferVars>>
outsideMain == <<routerVars, storeVars, inputVars, deferVars>>
outsideInput == <<routerVars, storeVars, mainVars, deferVars>>
outsideDefer == <<routerVars, storeVars, mainVars, inputVars>>

\* The Plugin built from the configuration entry at position i.
Plugin(i) == [name |-> i, prefix |-> config[i]]

\* PluginEvent / Result<PluginEvent>
NoResult == [kind |-> "none"]
SetList(list) == [kind |-> "SetList", list |-> list]
Err == [kind |-> "Err"]

\* Action lists an activation may answer with.
ActionLists == { <<>>, <<"Close">> }
Activate(actions) == [kind |-> "Activate", actions |-> actions]

\* An entry of the history.
Ev(kind, id) == [ev |-> kind, id |-> id]

\* What complete_query of a plugin may answer: Ok(None), Ok(Some(list)), Err.
ListItems(p) == { [title |-> "a", plugin |-> p] }
Responses(p) ==
    { [kind |-> "None"], [kind |-> "Err"] }
        \cup { [kind |-> "Some", list |-> l] : l \in SeqsUpTo(ListItems(p), MaxListLen) }

\* ------------------------------------------------------------------ Input and SelectionRange
\* u16::MAX
U16Max == 65535

\* SelectionRange::at(index): both bounds are the index.
SelectionRange_at(index) == [lower_bound |-> index, upper_bound |-> index]

\* SelectionRange::all(): from 0 to u16::MAX.
SelectionRange_all == [lower_bound |-> 0, upper_bound |-> U16Max]

\* SelectionRange::start() and ::end().
SelectionRange_start == SelectionRange_at(0)
SelectionRange_end == SelectionRange_at(U16Max)

\* Faulty variant of Input::new: the caret is put at the length of the query.
Input_new_at_len(q) ==
    LET range == SelectionRange_at(Len(q))
    IN  [query |-> q, range_lb |-> range.lower_bound, range_ub |-> range.upper_bound]

\* Input::new(query): the range is SelectionRange::end(), widened to u32.
Input_new(q) ==
    LET range == SelectionRange_end
    IN  [query |-> q, range_lb |-> range.lower_bound, range_ub |-> range.upper_bound]

\* Variant of Input::select that takes each bound from its own field.
Input_select_both(self, sel) ==
    [self EXCEPT !.range_lb = sel.lower_bound, !.range_ub = sel.upper_bound]

\* Input::select(self, sel): both range fields are assigned sel.lower_bound.
Input_select(self, sel) ==
    [self EXCEPT !.range_lb = sel.lower_bound, !.range_ub = sel.lower_bound]

\* The plugin server right after sql::init: an empty activations table and
\* no request received.
StoreInit ==
    /\ table = <<>>
    /\ clock = 1
    /\ req = [c \in Calls |-> [pc |-> "idle", title |-> "", at |-> 0, writes |-> 0,
                               written |-> FALSE, plugin_called |-> FALSE,
                               result |-> NoResult]]
    /\ resp = NoResult

\* The host before the first event, for the configurations in cfgs and the
\* process_ui_event futures in tasks.
RouterInitFor(cfgs, tasks) ==
    /\ config \in cfgs
    /\ CELL = [init |-> FALSE, value |-> <<>>]
    /\ permit = 0
    /\ fut = [i \in 1..Len(config) |-> "none"]
    /\ next_out = 1
    /\ vec = <<>>
    /\ overtook = FALSE
    /\ pc = [t \in tasks |-> "idle"]
    /\ query = [t \in tasks |-> <<>>]
    /\ idx = [t \in tasks |-> 1]
    /\ result = [t \in tasks |-> NoResult]
    /\ calls = [t \in tasks |-> <<>>]
    /\ events = <<>>

RouterInit(cfgs) == RouterInitFor(cfgs, Tasks)

\* A plugin process that has not run main yet, started with one of argvs.
MainInit(argvs) ==
    /\ mpc = "start"
    /\ argv \in argvs
    /\ port = 0
    /\ stdout = <<>>
    /\ exit_code = -1
    /\ failure = <<>>

\* An Input fresh from Input::new, for the queries in qs.
InputInit(qs) ==
    /\ \E q \in qs : input = Input_new(q)
    /\ how = [op |-> "new"]

\* A DeferredAction::Spawn of one of cmds that has not run yet.
DeferInit(cmds) ==
    /\ dpc = "idle"
    /\ dcmd \in cmds
    /\ dio = None
    /\ dres = NoResult

\* The parts of the system a specification does not exercise, at rest.
MainAtRest == MainInit({ <<"plugin">> })
InputAtRest == InputInit({ <<>> })
DeferAtRest == DeferInit({ [cmd |-> "true", args |-> <<>>] })

Init ==
    /\ RouterInit(SeqsUpTo(Prefixes, MaxPlugins))
    /\ StoreInit
    /\ MainAtRest /\ InputAtRest /\ DeferAtRest

\* ------------------------------------------------------------------ actions
\* A UiEvent::InputChanged { query } is handed to process_ui_event.
InputChanged(t, q) ==
    /\ pc[t] \in {"idle", "done", "activated", "panicked"}
    /\ pc' = [pc EXCEPT ![t] = "get"]
    /\ query' = [query EXCEPT ![t] = q]
    /\ idx' = [idx EXCEPT ![t] = 1]
    /\ result' = [result EXCEPT ![t] = NoResult]
    /\ calls' = [calls EXCEPT ![t] = <<>>]
    /\ UNCHANGED outsideRouter
    /\ UNCHANGED <<config, CELL, permit, fut, next_out, vec, overtook>>

\* CELL.get_or_init: the cell already holds the registry (seen on entry, or
\* on being woken from the wait for the permit).
GetCached(t) ==
    /\ pc[t] \in {"get", "wait"}
    /\ CELL.init
    /\ pc' = [pc EXCEPT ![t] = "loop"]
    /\ UNCHANGED outsideRouter
    /\ UNCHANGED <<config, CELL, permit, fut, next_out, vec, overtook, query, idx, result, calls>>

\* Faulty variant of GetOrInit: the cell is found empty and cell_init is run
\* without holding the permit.
GetOrInitNoPermit(t) ==
    /\ pc[t] \in {"get", "wait"}
    /\ ~CELL.init
    /\ permit' = t
    /\ pc' = [pc EXCEPT ![t] = "cell_init"]
    /\ UNCHANGED outsideRouter
    /\ UNCHANGED <<config, CELL, fut, next_out, vec, overtook, query, idx, result, calls>>

\* CELL.get_or_init: the cell is empty and nobody initialises it; this task
\* takes the permit and runs cell_init.
GetOrInit(t) ==
    /\ pc[t] \in {"get", "wait"}
    /\ ~CELL.init
    /\ permit = 0
    /\ permit' = t
    /\ pc' = [pc EXCEPT ![t] = "cell_init"]
    /\ UNCHANGED outsideRouter
    /\ UNCHANGED <<config, CELL, fut, next_out, vec, overtook, query, idx, result, calls>>

\* CELL.get_or_init: the cell is empty and another task holds the permit; this
\* task is suspended until the permit is given back or the cell is set.
GetOrInitWait(t) ==
    /\ pc[t] = "get"
    /\ ~CELL.init
    /\ permit # 0
    /\ pc' = [pc EXCEPT ![t] = "wait"]
    /\ UNCHANGED outsideRouter
    /\ UNCHANGED <<config, CELL, permit, fut, next_out, vec, overtook, query, idx, result, calls>>

\* cell_init: create_dir_all(...).expect(..) or Config::read().unwrap()
\* panics; the permit is given back and the cell stays empty.
CellInitPanic(t) ==
    /\ pc[t] = "cell_init"
    /\ permit' = 0
    /\ pc' = [pc EXCEPT ![t] = "panicked"]
    /\ UNCHANGED outsideRouter
    /\ UNCHANGED <<config, CELL, fut, next_out, vec, overtook, query, idx, result, calls>>

\* cell_init: the configuration is read and one from_config future per
\* configured plugin is put into the FuturesOrdered.
CellInitSpawn(t) ==
    /\ pc[t] = "cell_init"
    /\ fut' = [i \in 1..Len(config) |-> "pending"]
    /\ next_out' = 1
    /\ vec' = <<>>
    /\ overtook' = FALSE
    /\ pc' = [pc EXCEPT ![t] = "collect"]
    /\ UNCHANGED outsideRouter
    /\ UNCHANGED <<config, CELL, permit, query, idx, result, calls>>

\* Plugin::from_config(p) of the plugin at position i completes, with a
\* plugin (ok) or an error that is logged and turned into None.
from_config(i, ok) ==
    /\ i \in 1..Len(config)
    /\ fut[i] = "pending"
    /\ fut' = [fut EXCEPT ![i] = IF ok THEN "ok" ELSE "err"]
    /\ overtook' = (overtook \/ \E j \in 1..(i - 1) : fut[j] = "pending")
    /\ UNCHANGED outsideRouter
    /\ UNCHANGED <<config, CELL, permit, next_out, vec, pc, query, idx, result, calls>>

\* Faulty variant of StreamNext: the plugin is put in front of the Vec.
StreamNextReversed(t) ==
    /\ pc[t] = "collect"
    /\ next_out <= Len(config)
    /\ fut[next_out] \in {"ok", "err"}
    /\ vec' = IF fut[next_out] = "ok" THEN <<Plugin(next_out)>> \o vec ELSE vec
    /\ next_out' = next_out + 1
    /\ UNCHANGED outsideRouter
    /\ UNCHANGED <<config, CELL, permit, fut, overtook, pc, query, idx, result, calls>>

\* FuturesOrdered yields the output at the head of the input order once it is
\* there; filter_map drops a None, collect pushes a plugin.
StreamNext(t) ==
    /\ pc[t] = "collect"
    /\ next_out <= Len(config)
    /\ fut[next_out] \in {"ok", "err"}
    /\ vec' = IF fut[next_out] = "ok" THEN Append(vec, Plugin(next_out)) ELSE vec
    /\ next_out' = next_out + 1
    /\ UNCHANGED outsideRouter
    /\ UNCHANGED <<config, CELL, permit, fut, overtook, pc, query, idx, result, calls>>

\* The stream is exhausted: cell_init returns the Vec, get_or_init stores it
\* and the for loop starts.
CellInitDone(t) ==
    /\ pc[t] = "collect"
    /\ next_out > Len(config)
    /\ CELL' = [init |-> TRUE, value |-> vec]
    /\ permit' = 0
    /\ pc' = [pc EXCEPT ![t] = "loop"]
    /\ UNCHANGED outsideRouter
    /\ UNCHANGED <<config, fut, next_out, vec, overtook, query, idx, result, calls>>

\* One iteration of the for loop whose plugin's prefix does not lead the
\* query: strip_prefix is None, the plugin is passed over.
RouteSkip(t) ==
    /\ pc[t] = "loop"
    /\ idx[t] <= Len(CELL.value)
    /\ ~strip_prefix(query[t], CELL.value[idx[t]].prefix).some
    /\ idx' = [idx EXCEPT ![t] = idx[t] + 1]
    /\ UNCHANGED outsideRouter
    /\ UNCHANGED <<config, CELL, permit, fut, next_out, vec, overtook, pc, query, result, calls>>

\* Faulty variant of RouteQuery: the answer is kept but the loop goes on to
\* the next plugin instead of returning.
RouteQueryNoStop(t, r) ==
    /\ pc[t] = "loop"
    /\ idx[t] <= Len(CELL.value)
    /\ LET plugin == CELL.value[idx[t]]
           stripped == strip_prefix(query[t], plugin.prefix)
       IN  /\ stripped.some
           /\ r \in Responses(plugin.name)
           /\ calls' = [calls EXCEPT ![t] = Append(@,
                  [pos |-> idx[t], plugin |-> plugin.name, arg |-> stripped.val, ret |-> r])]
    /\ IF r.kind = "Err"
       THEN /\ result' = [result EXCEPT ![t] = Err]
            /\ pc' = [pc EXCEPT ![t] = "done"]
            /\ idx' = idx
       ELSE IF r.kind = "Some"
       THEN /\ result' = [result EXCEPT ![t] = SetList(r.list)]
            /\ idx' = [idx EXCEPT ![t] = idx[t] + 1]
            /\ pc' = pc
       ELSE /\ idx' = [idx EXCEPT ![t] = idx[t] + 1]
            /\ UNCHANGED <<result, pc>>
    /\ UNCHANGED outsideRouter
    /\ UNCHANGED <<config, CELL, permit, fut, next_out, vec, overtook, query>>

\* Faulty variant of RouteQuery: an empty list is treated like None.
RouteQueryEmptyContinues(t, r) ==
    /\ pc[t] = "loop"
    /\ idx[t] <= Len(CELL.value)
    /\ LET plugin == CELL.value[idx[t]]
           stripped == strip_prefix(query[t], plugin.prefix)
       IN  /\ stripped.some
           /\ r \in Responses(plugin.name)
           /\ calls' = [calls EXCEPT ![t] = Append(@,
                  [pos |-> idx[t], plugin |-> plugin.name, arg |-> stripped.val, ret |-> r])]
    /\ IF r.kind = "Err"
       THEN /\ result' = [result EXCEPT ![t] = Err]
            /\ pc' = [pc EXCEPT ![t] = "done"]
            /\ idx' = idx
       ELSE IF r.kind = "Some" /\ r.list # <<>>
       THEN /\ result' = [result EXCEPT ![t] = SetList(r.list)]
            /\ pc' = [pc EXCEPT ![t] = "done"]
            /\ idx' = idx
       ELSE /\ idx' = [idx EXCEPT ![t] = idx[t] + 1]
            /\ UNCHANGED <<result, pc>>
    /\ UNCHANGED outsideRouter
    /\ UNCHANGED <<config, CELL, permit, fut, next_out, vec, overtook, query>>

\* Variant of RouteQuery that drops the answer of a query when a younger
\* future has been started (futures are numbered in creation order).
RouteQueryCancelsStale(t, r) ==
    /\ pc[t] = "loop"
    /\ idx[t] <= Len(CELL.value)
    /\ LET plugin == CELL.value[idx[t]]
           stripped == strip_prefix(query[t], plugin.prefix)
       IN  /\ stripped.some
           /\ r \in Responses(plugin.name)
           /\ calls' = [calls EXCEPT ![t] = Append(@,
                  [pos |-> idx[t], plugin |-> plugin.name, arg |-> stripped.val, ret |-> r])]
    /\ IF r.kind = "Err" \/ (\E u \in DOMAIN pc : u > t /\ pc[u] # "idle")
       THEN /\ result' = [result EXCEPT ![t] = Err]
            /\ pc' = [pc EXCEPT ![t] = "done"]
            /\ idx' = idx
       ELSE IF r.kind = "Some"
       THEN /\ result' = [result EXCEPT ![t] = SetList(r.list)]
            /\ pc' = [pc EXCEPT ![t] = "done"]
            /\ idx' = idx
       ELSE /\ idx' = [idx EXCEPT ![t] = idx[t] + 1]
            /\ UNCHANGED <<result, pc>>
    /\ UNCHANGED outsideRouter
    /\ UNCHANGED <<config, CELL, permit, fut, next_out, vec, overtook, query>>

\* Faulty variant of RouteQuery: a plugin whose complete_query fails is taken
\* out of the registry.
RouteQueryUnloadsOnErr(t, r) ==
    /\ pc[t] = "loop"
    /\ idx[t] <= Len(CELL.value)
    /\ LET plugin == CELL.value[idx[t]]
           stripped == strip_prefix(query[t], plugin.prefix)
       IN  /\ stripped.some
           /\ r \in Responses(plugin.name)
           /\ calls' = [calls EXCEPT ![t] = Append(@,
                  [pos |-> idx[t], plugin |-> plugin.name, arg |-> stripped.val, ret |-> r])]
    /\ IF r.kind = "Err"
       THEN /\ result' = [result EXCEPT ![t] = Err]
            /\ pc' = [pc EXCEPT ![t] = "done"]
            /\ idx' = idx
            /\ CELL' = [CELL EXCEPT !.value =
                            SubSeq(@, 1, idx[t] - 1) \o SubSeq(@, idx[t] + 1, Len(@))]
       ELSE IF r.kind = "Some"
       THEN /\ result' = [result EXCEPT ![t] = SetList(r.list)]
            /\ pc' = [pc EXCEPT ![t] = "done"]
            /\ idx' = idx
            /\ CELL' = CELL
       ELSE /\ idx' = [idx EXCEPT ![t] = idx[t] + 1]
            /\ UNCHANGED <<result, pc, CELL>>
    /\ UNCHANGED outsideRouter
    /\ UNCHANGED <<config, permit, fut, next_out, vec, overtook, query>>

\* One iteration of the for loop whose plugin's prefix leads the query:
\* complete_query(stripped) is called and answers r; Err leaves through `?`,
\* Some(list) returns SetList(list), None goes on to the next plugin.
RouteQuery(t, r) ==
    /\ pc[t] = "loop"
    /\ idx[t] <= Len(CELL.value)
    /\ LET plugin == CELL.value[idx[t]]
           stripped == strip_prefix(query[t], plugin.prefix)
       IN  /\ stripped.some
           /\ r \in Responses(plugin.name)
           /\ calls' = [calls EXCEPT ![t] = Append(@,
                  [pos |-> idx[t], plugin |-> plugin.name, arg |-> stripped.val, ret |-> r])]
    /\ IF r.kind = "Err"
       THEN /\ result' = [result EXCEPT ![t] = Err]
            /\ pc' = [pc EXCEPT ![t] = "done"]
            /\ idx' = idx
       ELSE IF r.kind = "Some"
       THEN /\ result' = [result EXCEPT ![t] = SetList(r.list)]
            /\ pc' = [pc EXCEPT ![t] = "done"]
            /\ idx' = idx
       ELSE /\ idx' = [idx EXCEPT ![t] = idx[t] + 1]
            /\ UNCHANGED <<result, pc>>
    /\ UNCHANGED outsideRouter
    /\ UNCHANGED <<config, CELL, permit, fut, next_out, vec, overtook, query>>

\* Faulty variant of RouteFallback: running out of plugins is an error.
RouteFallbackErr(t) ==
    /\ pc[t] = "loop"
    /\ idx[t] > Len(CELL.value)
    /\ result' = [result EXCEPT ![t] = Err]
    /\ pc' = [pc EXCEPT ![t] = "done"]
    /\ UNCHANGED outsideRouter
    /\ UNCHANGED <<config, CELL, permit, fut, next_out, vec, overtook, query, idx, calls>>

\* The for loop ran out of plugins: Ok(PluginEvent::SetList(vec![])).
RouteFallback(t) ==
    /\ pc[t] = "loop"
    /\ idx[t] > Len(CELL.value)
    /\ result' = [result EXCEPT ![t] = SetList(<<>>)]
    /\ pc' = [pc EXCEPT ![t] = "done"]
    /\ UNCHANGED outsideRouter
    /\ UNCHANGED <<config, CELL, permit, fut, next_out, vec, overtook, query, idx, calls>>

\* A UiEvent::Activate { item } is handed to process_ui_event: item.activate()
\* answers the plugin's actions or fails, and `?` hands the failure back.  The
\* item is one a loaded plugin listed.
ActivateItem(t, item, r) ==
    /\ pc[t] \in {"idle", "done", "activated", "panicked"}
    /\ CELL.init
    /\ \E k \in 1..Len(CELL.value) : item \in ListItems(CELL.value[k].name)
    /\ r \in {Err} \cup { Activate(as) : as \in ActionLists }
    /\ pc' = [pc EXCEPT ![t] = "activated"]
    /\ result' = [result EXCEPT ![t] = r]
    /\ query' = [query EXCEPT ![t] = <<>>]
    /\ idx' = [idx EXCEPT ![t] = 1]
    /\ calls' = [calls EXCEPT ![t] = <<>>]
    /\ UNCHANGED outsideRouter
    /\ UNCHANGED <<config, CELL, permit, fut, next_out, vec, overtook>>

AllResponses == UNION { Responses(i) : i \in 1..MaxPlugins }
AllItems == UNION { ListItems(i) : i \in 1..MaxPlugins }
ActivateResults == {Err} \cup { Activate(as) : as \in ActionLists }

\* The host handles one InputChanged event after the other on each future;
\* the history is not kept.
Next ==
    \/ \E t \in Tasks, q \in Queries : InputChanged(t, q) /\ UNCHANGED events
    \/ \E t \in Tasks : GetCached(t) /\ UNCHANGED events
    \/ \E t \in Tasks : GetOrInit(t) /\ UNCHANGED events
    \/ \E t \in Tasks : CellInitPanic(t) /\ UNCHANGED events
    \/ \E t \in Tasks : CellInitSpawn(t) /\ UNCHANGED events
    \/ \E i \in 1..MaxPlugins, ok \in BOOLEAN : from_config(i, ok) /\ UNCHANGED events
    \/ \E t \in Tasks : StreamNext(t) /\ UNCHANGED events
    \/ \E t \in Tasks : CellInitDone(t) /\ UNCHANGED events
    \/ \E t \in Tasks : RouteSkip(t) /\ UNCHANGED events
    \/ \E t \in Tasks, r \in AllResponses : RouteQuery(t, r) /\ UNCHANGED events
    \/ \E t \in Tasks : RouteFallback(t) /\ UNCHANGED events

Spec == Init /\ [][Next]_vars

\* ------------------------------------------------------------------ concurrent dispatch
\* Several events are dispatched once each, on futures that run together, and
\* the history of dispatches, constructions, loads and returns is kept.
ConcConfigs == { <<>>, << <<>> >>, << <<"g">> >> }
ConcQueries == { <<>>, <<"g">> }

\* The futures are numbered in the order they are created: t is the next one.
IsNextFuture(t) ==
    /\ pc[t] = "idle"
    /\ \A u \in ConcTasks : u < t => pc[u] # "idle"

InitConc ==
    /\ RouterInitFor(ConcConfigs, ConcTasks)
    /\ StoreInit
    /\ MainAtRest /\ InputAtRest /\ DeferAtRest

Log(e) == events' = Append(events, e)

NextConc ==
    \/ \E t \in ConcTasks, q \in ConcQueries :
          IsNextFuture(t) /\ InputChanged(t, q) /\ Log(Ev("dispatch", t))
    \/ \E t \in ConcTasks : GetCached(t) /\ UNCHANGED events
    \/ \E t \in ConcTasks : GetOrInit(t) /\ UNCHANGED events
    \/ \E t \in ConcTasks : GetOrInitWait(t) /\ UNCHANGED events
    \/ \E t \in ConcTasks : CellInitPanic(t) /\ UNCHANGED events
    \/ \E t \in ConcTasks : CellInitSpawn(t) /\ UNCHANGED events
    \/ \E i \in 1..Len(config), ok \in BOOLEAN :
          from_config(i, ok) /\ Log(Ev("from_config", i))
    \/ \E t \in ConcTasks : StreamNext(t) /\ UNCHANGED events
    \/ \E t \in ConcTasks : CellInitDone(t) /\ Log(Ev("loaded", t))
    \/ \E t \in ConcTasks : RouteSkip(t) /\ UNCHANGED events
    \/ \E t \in ConcTasks, r \in AllResponses :
          /\ RouteQuery(t, r)
          /\ events' = IF pc'[t] = "done" THEN Append(events, Ev("return", t)) ELSE events
    \/ \E t \in ConcTasks : RouteFallback(t) /\ Log(Ev("return", t))
    \/ \E t \in ConcTasks, item \in AllItems, r \in ActivateResults :
          IsNextFuture(t) /\ ActivateItem(t, item, r) /\ Log(Ev("activate", t))

SpecConc == InitConc /\ [][NextConc]_vars

\* The positions of the history that hold the entry / an entry of the kind.
EvAt(kind, id) == { k \in 1..Len(events) : events[k] = Ev(kind, id) }
EvOf(kind) == { k \in 1..Len(events) : events[k].ev = kind }

\* ------------------------------------------------------------------ plugin server: activate
\* The titles of the items a request may carry.
Titles == { "a", "b" }

\* TonicResult<ActivationResponse>
Ok(actions) == [kind |-> "Ok", actions |-> actions]

\* The rows of the table that carry the title.
RowsOf(tbl, title) == { i \in 1..Len(tbl) : tbl[i].title = title }

\* Faulty variants of Upsert: the conflicting row is replaced by a fresh one;
\* a row is inserted whether or not the title is there.
UpsertReplace(tbl, title, at) ==
    IF RowsOf(tbl, title) = {}
    THEN Append(tbl, [title |-> title, frequency |-> 1, last_use |-> at])
    ELSE [i \in 1..Len(tbl) |->
            IF tbl[i].title = title
            THEN [title |-> title, frequency |-> 1, last_use |-> at]
            ELSE tbl[i]]

UpsertAlwaysInsert(tbl, title, at) ==
    Append(tbl, [title |-> title, frequency |-> 1, last_use |-> at])

\* Faulty variant of Upsert: the time is not restricted to the row of the
\* title and stamps every row.
UpsertStampsAll(tbl, title, at) ==
    LET stamped == [i \in 1..Len(tbl) |-> [tbl[i] EXCEPT !.last_use = at]]
    IN  IF RowsOf(tbl, title) = {}
        THEN Append(stamped, [title |-> title, frequency |-> 1, last_use |-> at])
        ELSE [i \in 1..Len(tbl) |->
                IF tbl[i].title = title
                THEN [stamped[i] EXCEPT !.frequency = @ + 1]
                ELSE stamped[i]]

\* INSERT INTO activations (title, frequency, last_use) VALUES (?, 1, ?)
\* ON CONFLICT (title) DO UPDATE SET frequency = frequency + 1,
\* last_use = excluded.last_use: one statement, executed atomically.
Upsert(tbl, title, at) ==
    IF RowsOf(tbl, title) = {}
    THEN Append(tbl, [title |-> title, frequency |-> 1, last_use |-> at])
    ELSE [i \in 1..Len(tbl) |->
            IF tbl[i].title = title
            THEN [tbl[i] EXCEPT !.frequency = @ + 1, !.last_use = at]
            ELSE tbl[i]]

\* Time passes.
Tick ==
    /\ clock < MaxClock
    /\ clock' = clock + 1
    /\ UNCHANGED <<table, req>>
    /\ UNCHANGED <<resp, outsideStore>>

\* An activate request for an item with the title arrives; the statement is
\* built and bound to the title and to now_utc().
ActivateBind(c, title) ==
    /\ req[c].pc = "idle"
    /\ req' = [req EXCEPT ![c].pc = "execute", ![c].title = title, ![c].at = clock]
    /\ UNCHANGED <<table, clock>>
    /\ UNCHANGED <<resp, outsideStore>>

\* .execute(sql::pool()).await is Ok: the row is upserted, the handler goes on.
ActivateExecute(c) ==
    /\ req[c].pc = "execute"
    /\ table' = Upsert(table, req[c].title, req[c].at)
    /\ req' = [req EXCEPT ![c].pc = "plugin", ![c].writes = @ + 1, ![c].written = TRUE]
    /\ UNCHANGED clock
    /\ UNCHANGED <<resp, outsideStore>>

\* Faulty variant of ActivateExecuteFail: the write error is swallowed and the
\* plugin is asked all the same.
ActivateExecuteFailIgnored(c) ==
    /\ req[c].pc = "execute"
    /\ req' = [req EXCEPT ![c].pc = "plugin", ![c].writes = @ + 1]
    /\ UNCHANGED <<table, clock>>
    /\ UNCHANGED <<resp, outsideStore>>

\* .execute(sql::pool()).await is Err: map_err(..)? returns Status::unknown,
\* nothing is written and T::activate is not called.
ActivateExecuteFail(c) ==
    /\ req[c].pc = "execute"
    /\ req' = [req EXCEPT ![c].pc = "done", ![c].writes = @ + 1, ![c].result = Err]
    /\ UNCHANGED <<table, clock>>
    /\ UNCHANGED <<resp, outsideStore>>

\* The table with one activation of the title taken back.
Unrecord(tbl, title) ==
    [i \in 1..Len(tbl) |->
        IF tbl[i].title = title THEN [tbl[i] EXCEPT !.frequency = @ - 1] ELSE tbl[i]]

\* Faulty variant of ActivatePlugin: the activation counts only when the
\* plugin's operation succeeds.
ActivatePluginRollback(c, r) ==
    /\ req[c].pc = "plugin"
    /\ r \in {Err} \cup { Ok(as) : as \in ActionLists }
    /\ req' = [req EXCEPT ![c].pc = "done", ![c].plugin_called = TRUE, ![c].result = r]
    /\ table' = IF r = Err THEN Unrecord(table, req[c].title) ELSE table
    /\ UNCHANGED clock
    /\ UNCHANGED <<resp, outsideStore>>

\* T::activate(self, item).await answers r, which map_result hands back.
ActivatePlugin(c, r) ==
    /\ req[c].pc = "plugin"
    /\ r \in {Err} \cup { Ok(as) : as \in ActionLists }
    /\ req' = [req EXCEPT ![c].pc = "done", ![c].plugin_called = TRUE, ![c].result = r]
    /\ UNCHANGED <<table, clock>>
    /\ UNCHANGED <<resp, outsideStore>>

\* proto::QueryResponse { items } and proto::CompletionResponse { input }
QueryResponse(items) == [kind |-> "Ok", items |-> items]
CompletionResponse(inp) == [kind |-> "Ok", input |-> inp]

\* What T::query and T::complete may answer, as map_result hands it back.
QueryResults == { Err, QueryResponse(<<"a">>) }
CompleteResults == { Err, CompletionResponse(None) }

\* The query handler: map_result(T::query(self, query).await.map(..)).
QueryCall(r) ==
    /\ r \in QueryResults
    /\ resp' = r
    /\ UNCHANGED <<table, clock, req>>
    /\ UNCHANGED outsideStore

\* The complete handler: request.selected.expect(..) panics without a selected
\* item; otherwise map_result(T::complete(self, query, selected).await.map(..)).
CompleteCall(selected, r) ==
    /\ r \in CompleteResults
    /\ resp' = IF selected.some THEN r ELSE [kind |-> "Panic"]
    /\ UNCHANGED <<table, clock, req>>
    /\ UNCHANGED outsideStore

NextStore ==
    \/ Tick
    \/ \E r \in QueryResults : QueryCall(r)
    \/ \E selected \in { None, Some("a") }, r \in CompleteResults :
          CompleteCall(selected, r)
    \/ \E c \in Calls, title \in Titles : ActivateBind(c, title)
    \/ \E c \in Calls : ActivateExecute(c)
    \/ \E c \in Calls : ActivateExecuteFail(c)
    \/ \E c \in Calls, r \in {Err} \cup { Ok(as) : as \in ActionLists } : ActivatePlugin(c, r)

\* The plugin server alone: no host event is in flight.
InitStore ==
    /\ RouterInit({ <<>> })
    /\ StoreInit
    /\ MainAtRest /\ InputAtRest /\ DeferAtRest

SpecStore == InitStore /\ [][NextStore]_vars

\* ------------------------------------------------------------------ plugin process: main
\* The command lines the process is started with: the program name, then the
\* sqlite url, then the toml settings.
Argvs ==
    { <<"plugin">> }
        \cup { <<"plugin", u>> : u \in {"a.db", "b.db"} }
        \cup { <<"plugin", u, c>> : u \in {"a.db", "b.db"}, c \in {"", "k=1"} }

\* The ports the OS may hand out for "[::1]:0".
Ports == { 1024, 40000, 65535 }

\* An anyhow::Error raised at a stage, with n causes: its messages, outermost
\* first.  No message holds a line break.
Chain(stage, n) == [k \in 1..n |-> IF k = 1 THEN stage ELSE "cause"]
Chains(stage) == { Chain(stage, n) : n \in 1..MaxChain }

\* Result<()> of a fallible stage.
Outcomes(stage) == { [ok |-> TRUE] } \cup { [ok |-> FALSE, err |-> c] : c \in Chains(stage) }

RECURSIVE Join(_)
\* e.chain().map(ToString::to_string).collect::<Vec<_>>().join("\n")
Join(chain) ==
    IF chain = <<>> THEN <<>>
    ELSE IF Len(chain) = 1 THEN chain
    ELSE <<Head(chain), "\n">> \o Join(Tail(chain))

RECURSIVE Decimal(_)
\* {port}: the decimal digits of a u16.
Decimal(n) ==
    LET digit == <<"0", "1", "2", "3", "4", "5", "6", "7", "8", "9">>[(n % 10) + 1]
    IN  IF n < 10 THEN <<digit>> ELSE Append(Decimal(n \div 10), digit)

\* println!: the text and a line break.
Println(text) == text \o <<"\n">>

\* Faulty variant of print_error: only the outermost message is printed.
print_error_outermost(chain) == Println(<<"ERROR:", Head(chain)>>)

\* print_error: println!("ERROR:{err_string}") with the joined chain.
print_error(chain) == Println(<<"ERROR:">> \o Join(chain))

\* main's match on an Err: print_error(e); process::exit(1).
ExitWith(chain) ==
    /\ stdout' = stdout \o print_error(chain)
    /\ failure' = chain
    /\ exit_code' = 1
    /\ mpc' = "exited"

\* A stage that takes main from one position to the next, or fails.
Stage(from, to, r) ==
    /\ mpc = from
    /\ r \in Outcomes(from)
    /\ IF r.ok
       THEN /\ mpc' = to
            /\ UNCHANGED <<stdout, failure, exit_code>>
       ELSE ExitWith(r.err)

\* tokio::runtime::Runtime::new().map_err(..)
RuntimeNew(r) ==
    /\ Stage("start", "args", r)
    /\ UNCHANGED <<argv, port>>
    /\ UNCHANGED outsideMain

\* args.nth(1).context(..)? and args.next().context(..)?
ReadArgs ==
    /\ mpc = "args"
    /\ IF Len(argv) < 2
       THEN ExitWith(<<"missing sqlite url as first argument">>)
       ELSE IF Len(argv) < 3
       THEN ExitWith(<<"missing toml settings as second argument">>)
       ELSE /\ mpc' = "sql_init"
            /\ UNCHANGED <<stdout, failure, exit_code>>
    /\ UNCHANGED <<argv, port>>
    /\ UNCHANGED outsideMain

\* sql::init(&sqlite_url).await?
SqlInit(r) ==
    /\ Stage("sql_init", "bind", r)
    /\ UNCHANGED <<argv, port>>
    /\ UNCHANGED outsideMain

\* TcpListener::bind("[::1]:0").await? and listener.local_addr()?.port()
Bind(r, p) ==
    /\ Stage("bind", "plugin_new", r)
    /\ port' = IF r.ok THEN p ELSE port
    /\ UNCHANGED argv
    /\ UNCHANGED outsideMain

\* T::new(toml).await?
PluginNew(r) ==
    /\ Stage("plugin_new", "print_port", r)
    /\ UNCHANGED <<argv, port>>
    /\ UNCHANGED outsideMain

\* println!("PORT:{port}"), then the server starts serving.
PrintPort ==
    /\ mpc = "print_port"
    /\ stdout' = stdout \o Println(<<"PORT:">> \o Decimal(port))
    /\ mpc' = "serving"
    /\ UNCHANGED <<argv, port, failure, exit_code>>
    /\ UNCHANGED outsideMain

\* serve_with_incoming(..).await? ends: with Ok(()) main exits with 0, with
\* an error it goes through print_error and exits with 1.
ServeEnds(r) ==
    /\ mpc = "serving"
    /\ r \in Outcomes("serving")
    /\ IF r.ok
       THEN /\ mpc' = "exited"
            /\ exit_code' = 0
            /\ UNCHANGED <<stdout, failure>>
       ELSE ExitWith(r.err)
    /\ UNCHANGED <<argv, port>>
    /\ UNCHANGED outsideMain

Stages == {"start", "sql_init", "bind", "plugin_new", "serving"}
AllOutcomes == UNION { Outcomes(st) : st \in Stages }

NextMain ==
    \/ \E r \in AllOutcomes : RuntimeNew(r)
    \/ ReadArgs
    \/ \E r \in AllOutcomes : SqlInit(r)
    \/ \E r \in AllOutcomes, p \in Ports : Bind(r, p)
    \/ \E r \in AllOutcomes : PluginNew(r)
    \/ PrintPort
    \/ \E r \in AllOutcomes : ServeEnds(r)

InitMain ==
    /\ RouterInit({ <<>> })
    /\ StoreInit
    /\ MainInit(Argvs) /\ InputAtRest /\ DeferAtRest

SpecMain == InitMain /\ [][NextMain]_vars

\* ------------------------------------------------------------------ building an Input
\* The query texts and the u16 indices a plugin builds inputs from.
InputQueries == SeqsUpTo({"x", "y"}, MaxInputLen)
Indices == { 0, 1, 2, 65534, 65535 }
Ctors == { "all", "start", "end", "at" }

\* The SelectionRange a constructor call yields.
MakeRange(ctor, i) ==
    CASE ctor = "all" -> SelectionRange_all
      [] ctor = "start" -> SelectionRange_start
      [] ctor = "end" -> SelectionRange_end
      [] ctor = "at" -> SelectionRange_at(i)

\* Input::new(q)
InputNew(q) ==
    /\ input' = Input_new(q)
    /\ how' = [op |-> "new"]
    /\ UNCHANGED outsideInput

\* input.select(sel) with sel fresh from one of SelectionRange's constructors.
InputSelect(ctor, i) ==
    /\ ctor = "at" \/ i = 0
    /\ LET sel == MakeRange(ctor, i)
       IN  /\ input' = Input_select(input, sel)
           /\ how' = [op |-> "select", ctor |-> ctor, index |-> i, sel |-> sel]
    /\ UNCHANGED outsideInput

NextInput ==
    \/ \E q \in InputQueries : InputNew(q)
    \/ \E ctor \in Ctors, i \in Indices : InputSelect(ctor, i)

InitInput ==
    /\ RouterInit({ <<>> })
    /\ StoreInit
    /\ MainAtRest /\ InputInit(InputQueries) /\ DeferAtRest

SpecInput == InitInput /\ [][NextInput]_vars

\* ------------------------------------------------------------------ deferred actions
\* The executables that exist on the host, and the commands plugins ask for.
Executables == { "true", "ls" }
Commands == { [cmd |-> c, args |-> a] : c \in Executables \cup {"nope"}, a \in { <<>>, <<"-l">> } }

\* io::ErrorKind: the kinds host::IoError has a variant for, and kinds it has
\* none for.
NamedKinds ==
    { "NotFound", "PermissionDenied", "ConnectionRefused", "ConnectionReset",
      "ConnectionAborted", "NotConnected", "AddrInUse", "AddrNotAvailable",
      "BrokenPipe", "AlreadyExists", "WouldBlock", "InvalidInput", "TimedOut",
      "WriteZero", "Interrupted", "Unsupported", "UnexpectedEof", "OutOfMemory" }
IoKinds == NamedKinds \cup { "InvalidData", "Other" }

\* io::Error: its kind and its Display text.
IoErrors == { [kind |-> k, message |-> m] : k \in IoKinds, m \in { "os error", "custom" } }

\* std::process::Output: the exit status (no code when ended by a signal) and
\* what was captured of the two streams.
Outputs ==
    { [code |-> c, stdout |-> o, stderr |-> e] :
        c \in { None, Some(0), Some(1) }, o \in { <<>>, <<"out">> }, e \in { <<>>, <<"err">> } }

\* Result<ProcessOutput, IoError> and DeferredResult::ProcessOutput
ResultOk(v) == [ok |-> TRUE, val |-> v]
ResultErr(e) == [ok |-> FALSE, err |-> e]
ProcessOutput(res) == [kind |-> "ProcessOutput", res |-> res]

\* Faulty variant of the conversion: every error becomes Other(message).
IoError_from_lossy(value) == [tag |-> "Other", message |-> value.message]

\* impl From<io::Error> for host::IoError
IoError_from(value) ==
    CASE value.kind = "NotFound" -> [tag |-> "NotFound"]
      [] value.kind = "PermissionDenied" -> [tag |-> "PermissionDenied"]
      [] value.kind = "ConnectionRefused" -> [tag |-> "ConnectionRefused"]
      [] value.kind = "ConnectionReset" -> [tag |-> "ConnectionReset"]
      [] value.kind = "ConnectionAborted" -> [tag |-> "ConnectionAborted"]
      [] value.kind = "NotConnected" -> [tag |-> "NotConnected"]
      [] value.kind = "AddrInUse" -> [tag |-> "AddrInUse"]
      [] value.kind = "AddrNotAvailable" -> [tag |-> "AddrNotAvailable"]
      [] value.kind = "BrokenPipe" -> [tag |-> "BrokenPipe"]
      [] value.kind = "AlreadyExists" -> [tag |-> "AlreadyExists"]
      [] value.kind = "WouldBlock" -> [tag |-> "WouldBlock"]
      [] value.kind = "InvalidInput" -> [tag |-> "InvalidInput"]
      [] value.kind = "TimedOut" -> [tag |-> "TimedOut"]
      [] value.kind = "WriteZero" -> [tag |-> "WriteZero"]
      [] value.kind = "Interrupted" -> [tag |-> "Interrupted"]
      [] value.kind = "Unsupported" -> [tag |-> "Unsupported"]
      [] value.kind = "UnexpectedEof" -> [tag |-> "UnexpectedEof"]
      [] value.kind = "OutOfMemory" -> [tag |-> "OutOfMemory"]
      [] OTHER -> [tag |-> "Other", message |-> value.message]

\* impl From<std::process::Output> for host::ProcessOutput
ProcessOutput_from(value) ==
    [exit_code |-> value.code, stdout |-> value.stdout, stderr |-> value.stderr]

\* `?` in DeferredAction::spawn: the io::Error is converted and returned, and
\* run wraps it in DeferredResult::ProcessOutput.
ReturnIoError(e) ==
    /\ dio' = Some(e)
    /\ dres' = ProcessOutput(ResultErr(IoError_from(e)))
    /\ dpc' = "done"

\* Command::new(cmd)...spawn() fails; for an executable that does not exist
\* the OS reports NotFound.
SpawnFails(e) ==
    /\ dpc = "idle"
    /\ e \in IoErrors
    /\ dcmd.cmd \notin Executables => (e.kind = "NotFound" /\ e.message = "os error")
    /\ ReturnIoError(e)
    /\ UNCHANGED dcmd
    /\ UNCHANGED outsideDefer

\* Command::new(cmd)...spawn() starts the child.
SpawnOk ==
    /\ dpc = "idle"
    /\ dcmd.cmd \in Executables
    /\ dpc' = "waiting"
    /\ UNCHANGED <<dcmd, dio, dres>>
    /\ UNCHANGED outsideDefer

\* wait_with_output().await fails.
WaitFails(e) ==
    /\ dpc = "waiting"
    /\ e \in IoErrors
    /\ ReturnIoError(e)
    /\ UNCHANGED dcmd
    /\ UNCHANGED outsideDefer

\* wait_with_output().await yields the child's output.
WaitOk(out) ==
    /\ dpc = "waiting"
    /\ out \in Outputs
    /\ dres' = ProcessOutput(ResultOk(ProcessOutput_from(out)))
    /\ dpc' = "done"
    /\ UNCHANGED <<dcmd, dio>>
    /\ UNCHANGED outsideDefer

NextDefer ==
    \/ \E e \in IoErrors : SpawnFails(e)
    \/ SpawnOk
    \/ \E e \in IoErrors : WaitFails(e)
    \/ \E out \in Outputs : WaitOk(out)

InitDefer ==
    /\ RouterInit({ <<>> })
    /\ StoreInit
    /\ MainAtRest /\ InputAtRest /\ DeferInit(Commands)

SpecDefer == InitDefer /\ [][NextDefer]_vars

\* ------------------------------------------------------------------ routing claims
\* p is a literal prefix of q (stated without strip_prefix).
IsLiteralPrefix(p, q) == \E n \in 0..Len(q) : SubSeq(q, 1, n) = p

\* The registry positions whose plugin's prefix is a literal prefix of t's query.
Matching(t) == { i \in 1..Len(CELL.value) : IsLiteralPrefix(CELL.value[i].prefix, query[t]) }

\* The positions t has called complete_query on.
CalledPos(t) == { calls[t][k].pos : k \in 1..Len(calls[t]) }

\* t's call of the plugin at position i answered with kind knd.
Answered(t, i, knd) ==
    \E k \in 1..Len(calls[t]) : calls[t][k].pos = i /\ calls[t][k].ret.kind = knd

\* C1: handling InputChanged(query) never calls complete_query of a plugin
\* whose prefix is not a literal prefix of the query.
C1_OnlyPrefixPluginsCalled ==
    \A t \in Tasks : \A k \in 1..Len(calls[t]) :
        /\ calls[t][k].pos \in Matching(t)
        /\ IsLiteralPrefix(config[calls[t][k].plugin], query[t])

\* A finished dispatch that passed over a plugin whose prefix does not lead the
\* query and then called one whose prefix does.
C1_Witness ==
    \E t \in Tasks :
        /\ pc[t] = "done"
        /\ Len(calls[t]) >= 1
        /\ \E i \in 1..Len(CELL.value) :
              /\ i < calls[t][1].pos
              /\ ~IsLiteralPrefix(CELL.value[i].prefix, query[t])
              /\ Len(CELL.value[i].prefix) <= Len(query[t])

\* C2: when matching plugin i answers None and the next matching plugin j
\* answers Some(list), the dispatch returns SetList(list) and no plugin after j
\* is called.
C2_NextPluginListWins ==
    \A t \in Tasks : \A i, j \in Matching(t) :
        ( /\ i < j
          /\ \A m \in Matching(t) : ~(i < m /\ m < j)
          /\ Answered(t, i, "None")
          /\ Answered(t, j, "Some") )
        => /\ pc[t] = "done"
           /\ \E k \in 1..Len(calls[t]) :
                 /\ calls[t][k].pos = j
                 /\ result[t] = SetList(calls[t][k].ret.list)
           /\ \A p \in CalledPos(t) : p <= j

\* Plugin i answered None, plugin i+1 answered a list, and a further matching
\* plugin i+2 is in the registry.
C2_Witness ==
    \E t \in Tasks : \E i \in Matching(t) :
        /\ {i + 1, i + 2} \subseteq Matching(t)
        /\ Answered(t, i, "None")
        /\ Answered(t, i + 1, "Some")
        /\ result[t].kind = "SetList"
        /\ result[t].list # <<>>

\* C3: a matching plugin that answers Some(list), the empty list included, owns
\* the response: SetList(list) is returned and it is the last plugin called;
\* only None lets the loop go on, and then to the next matching plugin.
C3_SomeOwnsNoneContinues ==
    \A t \in Tasks : \A k \in 1..Len(calls[t]) :
        /\ calls[t][k].ret.kind = "Some" =>
              /\ k = Len(calls[t])
              /\ pc[t] = "done"
              /\ result[t] = SetList(calls[t][k].ret.list)
        /\ k < Len(calls[t]) =>
              /\ calls[t][k].ret.kind = "None"
              /\ calls[t][k + 1].pos > calls[t][k].pos
              /\ \A m \in Matching(t) :
                    ~(calls[t][k].pos < m /\ m < calls[t][k + 1].pos)
        /\ (calls[t][k].ret.kind = "None" /\ k = Len(calls[t]) /\ pc[t] = "done") =>
              \A m \in Matching(t) : m <= calls[t][k].pos

\* After a None, a plugin answered the present but empty list, and a later
\* matching plugin was left unasked.
C3_Witness ==
    \E t \in Tasks :
        /\ pc[t] = "done"
        /\ Len(calls[t]) >= 2
        /\ calls[t][Len(calls[t])].ret = [kind |-> "Some", list |-> <<>>]
        /\ result[t] = SetList(<<>>)
        /\ \E m \in Matching(t) : m > calls[t][Len(calls[t])].pos

\* C4: a finished dispatch in which no loaded plugin matched the query, or
\* every matching plugin answered None, returned SetList of the empty list.
C4_EmptyListFallback ==
    \A t \in Tasks :
        ( /\ pc[t] = "done"
          /\ \A i \in Matching(t) : Answered(t, i, "None") )
        => result[t] = SetList(<<>>)

\* Every matching plugin answered None, next to a plugin that did not match.
C4_Witness ==
    \E t \in Tasks :
        /\ pc[t] = "done"
        /\ Cardinality(Matching(t)) >= 2
        /\ Matching(t) # 1..Len(CELL.value)
        /\ \A i \in Matching(t) : Answered(t, i, "None")

\* The registry is [prefix "g", prefix ""] and t asks for "g hello".
GHelloScenario(t) ==
    /\ query[t] = GHello
    /\ Len(CELL.value) = 2
    /\ CELL.value[1].prefix = <<"g">>
    /\ CELL.value[2].prefix = <<>>

\* C5 as claimed: the plugin is asked for the query without its prefix, and
\* in the scenario the "g" plugin is asked for "hello".
C5_AsClaimed ==
    \A t \in Tasks : \A k \in 1..Len(calls[t]) :
        /\ config[calls[t][k].plugin] \o calls[t][k].arg = query[t]
        /\ (GHelloScenario(t) /\ calls[t][k].pos = 1) => calls[t][k].arg = Hello

\* C5: the plugin is asked for the query with exactly its prefix removed; in
\* the scenario the "g" plugin is asked for " hello" (the blank after the
\* prefix stays), and when it answers a non-empty list that list is the result
\* and the empty-prefix plugin is not called.
C5_ExactPrefixRemoved ==
    \A t \in Tasks : \A k \in 1..Len(calls[t]) :
        /\ config[calls[t][k].plugin] \o calls[t][k].arg = query[t]
        /\ (GHelloScenario(t) /\ calls[t][k].pos = 1) =>
              /\ calls[t][k].arg = SpHello
              /\ (calls[t][k].ret.kind = "Some" /\ calls[t][k].ret.list # <<>>) =>
                    /\ result[t] = SetList(calls[t][k].ret.list)
                    /\ CalledPos(t) = {1}

\* The scenario ran: the "g" plugin answered a non-empty list.
C5_Witness ==
    \E t \in Tasks :
        /\ GHelloScenario(t)
        /\ pc[t] = "done"
        /\ Len(calls[t]) = 1
        /\ calls[t][1].ret.kind = "Some"
        /\ calls[t][1].ret.list # <<>>

\* ------------------------------------------------------------------ activation claims
\* The stored frequency of the title in tbl (0 when it has no row).
FreqIn(tbl, title) ==
    IF RowsOf(tbl, title) = {} THEN 0
    ELSE tbl[CHOOSE i \in RowsOf(tbl, title) : \A j \in RowsOf(tbl, title) : i <= j].frequency

\* The stored last_use of the title in tbl (0 when it has no row).
LastUseIn(tbl, title) ==
    IF RowsOf(tbl, title) = {} THEN 0
    ELSE tbl[CHOOSE i \in RowsOf(tbl, title) : \A j \in RowsOf(tbl, title) : i <= j].last_use

\* Every request that was received has returned.
AllFinished == \A c \in Calls : req[c].pc \in {"idle", "done"}

\* The requests for the title that were received / that have returned.
Received(title) == { c \in Calls : req[c].pc # "idle" /\ req[c].title = title }
Returned(title) == { c \in Calls : req[c].pc = "done" /\ req[c].title = title }

\* C6 as claimed: once all activate calls have finished, the frequency of a
\* title equals the number of activate calls for it.
C6_AsClaimed ==
    AllFinished => \A title \in Titles :
        FreqIn(table, title) = Cardinality(Returned(title))

\* C6: the frequency of a title is at all times the number of activate calls
\* for it whose record write succeeded, under every interleaving; so once all
\* calls have finished no increment is lost.
C6_NoLostIncrement ==
    \A title \in Titles :
        FreqIn(table, title) = Cardinality({ c \in Received(title) : req[c].written })

\* Two activations of one title ran interleaved (the one bound first wrote
\* last) and both increments are there.
C6_Witness ==
    \E c1, c2 \in Calls :
        /\ c1 # c2
        /\ AllFinished
        /\ req[c1].title = req[c2].title
        /\ req[c1].written /\ req[c2].written
        /\ req[c1].at < req[c2].at
        /\ LastUseIn(table, req[c1].title) = req[c1].at
        /\ FreqIn(table, req[c1].title) = 2

\* The step of request c in which its statement is executed successfully.
WriteStep(c) == req[c].pc = "execute" /\ req'[c].pc = "plugin"

\* C7: the write is an upsert. Without a row for the title it creates one
\* with frequency 1 and last_use = the activation time; with a row it adds 1
\* to its frequency and overwrites its last_use with the activation time; and
\* no title ever has more than one row.
C7_UpsertSemantics ==
    /\ [](\A title \in Titles : Cardinality(RowsOf(table, title)) <= 1)
    /\ [][\A c \in Calls : WriteStep(c) =>
            /\ Cardinality(RowsOf(table', req[c].title)) = 1
            /\ FreqIn(table', req[c].title) =
                   IF RowsOf(table, req[c].title) = {} THEN 1
                   ELSE FreqIn(table, req[c].title) + 1
            /\ LastUseIn(table', req[c].title) = req[c].at
            /\ Len(table') =
                   IF RowsOf(table, req[c].title) = {} THEN Len(table) + 1
                   ELSE Len(table)]_vars

\* A row was created by one activation and updated by a later one.
C7_Witness ==
    \E c1, c2 \in Calls :
        /\ c1 # c2
        /\ req[c1].title = req[c2].title
        /\ req[c1].written /\ req[c2].written
        /\ req[c1].at < req[c2].at
        /\ table = <<[title |-> req[c1].title, frequency |-> 2, last_use |-> req[c2].at]>>

\* C8 as claimed: every activate call that has returned has recorded one
\* activation for its title.
C8_AsClaimed ==
    \A title \in Titles :
        FreqIn(table, title) >= Cardinality(Returned(title))

\* The request got past the record write.
PastWrite(c) == req[c].pc = "plugin" \/ (req[c].pc = "done" /\ req[c].plugin_called)

\* C8: every activate call whose record write succeeds has recorded exactly
\* one activation before it returns, whether the plugin's operation then
\* succeeds or fails; a call that returned without asking the plugin returned
\* an error.
C8_RecordedDespitePluginFailure ==
    /\ \A title \in Titles :
          FreqIn(table, title) =
              Cardinality({ c \in Received(title) : req[c].pc = "plugin" })
              + Cardinality({ c \in Returned(title) :
                                req[c].plugin_called /\ req[c].result.kind = "Ok" })
              + Cardinality({ c \in Returned(title) :
                                req[c].plugin_called /\ req[c].result = Err })
    /\ \A c \in Calls :
          (req[c].pc = "done" /\ ~req[c].plugin_called) => req[c].result = Err

\* The only activation of a title returned the plugin's error, and the title
\* stands at frequency 1.
C8_Witness ==
    \E c \in Calls :
        /\ req[c].pc = "done"
        /\ req[c].plugin_called
        /\ req[c].result = Err
        /\ Received(req[c].title) = {c}
        /\ FreqIn(table, req[c].title) = 1

\* C9: within one activate call the record write has been executed
\* successfully before T::activate is invoked; a call whose write failed
\* returned an error without an action list, did not invoke T::activate, and
\* executed the statement once.
C9_WriteBeforePluginAndFatal ==
    \A c \in Calls :
        /\ req[c].writes <= 1
        /\ PastWrite(c) =>
              /\ req[c].written
              /\ req[c].writes = 1
              /\ FreqIn(table, req[c].title) >= 1
        /\ (req[c].pc = "done" /\ ~req[c].written) =>
              /\ req[c].result = Err
              /\ ~req[c].plugin_called
              /\ req[c].writes = 1

\* A call whose write failed has returned: an error, no row, no plugin call.
C9_Witness ==
    \E c \in Calls :
        /\ req[c].pc = "done"
        /\ ~req[c].written
        /\ req[c].writes = 1
        /\ req[c].result = Err
        /\ FreqIn(table, req[c].title) = 0

\* ------------------------------------------------------------------ table claims
\* C15: whatever query, activate and complete calls are served, the table is
\* only ever upserted: no row goes away, no title's frequency goes down, and
\* every row has a frequency of at least 1.
C15_TableOnlyGrows ==
    /\ [](\A i \in 1..Len(table) : table[i].frequency >= 1)
    /\ [][/\ Len(table') >= Len(table)
          /\ \A i \in 1..Len(table) :
                /\ table'[i].title = table[i].title
                /\ table'[i].frequency >= table[i].frequency]_vars

\* A title was activated twice, once with a failing plugin operation, and a
\* query or complete call was served.
C15_Witness ==
    /\ \E title \in Titles : FreqIn(table, title) = 2
    /\ \E c \in Calls : req[c].pc = "done" /\ req[c].plugin_called /\ req[c].result = Err
    /\ resp # NoResult

\* C19: the table is written only by the write step of an activate call and
\* only in the row of the activated title: that step leaves the frequency and
\* last_use of every other title as they were, and every other step, those of
\* query and complete calls included, leaves the whole table as it was.
C19_OnlyActivatedTitleWritten ==
    [][/\ \A c \in Calls : WriteStep(c) =>
              \A title \in Titles \ {req[c].title} :
                  /\ FreqIn(table', title) = FreqIn(table, title)
                  /\ LastUseIn(table', title) = LastUseIn(table, title)
       /\ (\A c \in Calls : ~WriteStep(c)) => table' = table
       /\ resp' # resp => table' = table]_vars

\* Title "b" was activated later than title "a", whose row still carries its
\* own earlier time; a query or complete call was served as well.
C19_Witness ==
    /\ FreqIn(table, "a") >= 1
    /\ FreqIn(table, "b") >= 1
    /\ LastUseIn(table, "a") < LastUseIn(table, "b")
    /\ table[1].title = "a"
    /\ resp.kind \in {"Ok", "Err", "Panic"}

\* ------------------------------------------------------------------ loading claims
RECURSIVE SucceededUpTo(_)
\* The plugins at config positions 1..n whose from_config succeeded, in
\* configuration order.
SucceededUpTo(n) ==
    IF n = 0 THEN <<>>
    ELSE IF fut[n] = "ok" THEN Append(SucceededUpTo(n - 1), Plugin(n))
    ELSE SucceededUpTo(n - 1)

\* C10: the loaded registry holds exactly the plugins whose construction
\* succeeded, in configuration order whatever the completion order; configs
\* [A, B(fails), C] give [A, C].
C10_RegistryIsSucceededInOrder ==
    CELL.init =>
        /\ \A i \in 1..Len(config) : fut[i] \in {"ok", "err"}
        /\ CELL.value = SucceededUpTo(Len(config))
        /\ (Len(config) = 3 /\ fut = <<"ok", "err", "ok">>) =>
              CELL.value = <<Plugin(1), Plugin(3)>>

\* [A, B(fails), C] was loaded, and a later construction completed while an
\* earlier one was still pending.
C10_Witness ==
    /\ CELL.init
    /\ Len(config) = 3
    /\ fut = <<"ok", "err", "ok">>
    /\ overtook

\* ------------------------------------------------------------------ start-up claims
RECURSIVE SplitLines(_, _)
\* The lines of a text: cur is the line being read.
SplitLines(text, cur) ==
    IF text = <<>> THEN (IF cur = <<>> THEN <<>> ELSE <<cur>>)
    ELSE IF Head(text) = "\n" THEN <<cur>> \o SplitLines(Tail(text), <<>>)
    ELSE SplitLines(Tail(text), Append(cur, Head(text)))

\* What stands on standard output, line by line.
StdoutLines == SplitLines(stdout, <<>>)
PortLines == { k \in 1..Len(StdoutLines) : Head(StdoutLines[k]) = "PORT:" }
ErrorLines == { k \in 1..Len(StdoutLines) : Head(StdoutLines[k]) = "ERROR:" }

\* The one line  PORT:<port>  for the port the listener is bound to.
PortLine == <<"PORT:">> \o Decimal(port)

\* main ended with an error before it printed the port.
StartupFailed == mpc = "exited" /\ failure # <<>> /\ PortLines = {}

\* C12 as claimed: a process that serves has printed exactly the one line
\* PORT:<port>, and a process whose start-up failed has printed exactly one
\* line, ERROR:<message chain>, and exited with a non-zero status.
C12_AsClaimed ==
    /\ mpc = "serving" => StdoutLines = <<PortLine>>
    /\ StartupFailed =>
          /\ Len(StdoutLines) = 1
          /\ ErrorLines = {1}
          /\ exit_code # 0

\* C12: a process that serves has printed exactly the one line PORT:<port>
\* before; a process whose start-up failed has printed ERROR: followed by the
\* messages of the cause chain joined by line breaks, which is one line per
\* cause and nothing else, and exited with status 1; status 0 is given only
\* when serving ended without an error.
C12_PortLineThenErrorRecord ==
    /\ mpc = "serving" => StdoutLines = <<PortLine>>
    /\ Cardinality(PortLines) <= 1
    /\ StartupFailed =>
          /\ Len(StdoutLines) = Len(failure)
          /\ StdoutLines[1] = <<"ERROR:", failure[1]>>
          /\ \A k \in 2..Len(failure) : StdoutLines[k] = <<failure[k]>>
          /\ ErrorLines = {1}
          /\ exit_code = 1
    /\ mpc = "exited" =>
          /\ exit_code \in {0, 1}
          /\ exit_code = 0 <=> failure = <<>>
          /\ exit_code = 0 => StdoutLines = <<PortLine>>
    /\ mpc # "exited" => exit_code = -1 /\ ErrorLines = {}

\* The plugin's constructor failed with an error that has a cause: two lines
\* stand on standard output and the status is 1.
C12_Witness ==
    /\ StartupFailed
    /\ failure = <<"plugin_new", "cause">>
    /\ StdoutLines = << <<"ERROR:", "plugin_new">>, <<"cause">> >>
    /\ exit_code = 1

\* ------------------------------------------------------------------ input claims
\* C14: whatever the query and its length, Input::new(query) has lower
\* bound = upper bound = 65535; SelectionRange::all() is (0, 65535), start()
\* is (0, 0), end() is (65535, 65535) and at(i) is (i, i).
C14_NewIsEndAndCtors ==
    /\ how.op = "new" =>
          /\ input.range_lb = 65535
          /\ input.range_ub = 65535
          /\ input.query \in InputQueries
    /\ how.op = "select" =>
          /\ how.ctor = "all" => how.sel = [lower_bound |-> 0, upper_bound |-> 65535]
          /\ how.ctor = "start" => how.sel = [lower_bound |-> 0, upper_bound |-> 0]
          /\ how.ctor = "end" => how.sel = [lower_bound |-> 65535, upper_bound |-> 65535]
          /\ how.ctor = "at" =>
                how.sel = [lower_bound |-> how.index, upper_bound |-> how.index]

\* An Input was built from a query of two or more characters.
C14_Witness ==
    /\ how.op = "new"
    /\ Len(input.query) >= 2
    /\ input.range_lb = 65535
    /\ input.range_ub = 65535

C18_SpawnFailureIsErrorValue ==
    /\ dpc = "done" => dres.kind = "ProcessOutput"
    /\ (dpc = "done" /\ dio.some) =>
          dres = ProcessOutput(ResultErr(
                     IF dio.val.kind \in NamedKinds
                     THEN [tag |-> dio.val.kind]
                     ELSE [tag |-> "Other", message |-> dio.val.message]))
    /\ (dpc = "done" /\ dcmd.cmd \notin Executables) =>
          dres = ProcessOutput(ResultErr([tag |-> "NotFound"]))
    /\ (dpc = "done" /\ ~dio.some) => dres.res.ok

\* The spawn of an executable that does not exist has completed.
C18_Witness ==
    /\ dcmd.cmd = "nope"
    /\ dpc = "done"
    /\ dio.some
    /\ dres = ProcessOutput(ResultErr([tag |-> "NotFound"]))

\* ------------------------------------------------------------------ failure claims
\* The dispatches that had returned an error of the plugin at position i
\* before t was dispatched.
FailedBefore(t, i) ==
    { u \in ConcTasks :
        /\ pc[u] = "done"
        /\ result[u] = Err
        /\ calls[u] # <<>>
        /\ calls[u][Len(calls[u])].pos = i
        /\ \E k1 \in EvAt("return", u), k2 \in EvAt("dispatch", t) : k1 < k2 }

\* C13: a query or an activation that fails returns the error and nothing
\* else (no list, no actions); no step removes a plugin or changes the
\* registry; and a later query whose prefix matches the plugin that failed,
\* and which no earlier plugin answers, calls it again.
C13_FailureLeavesDispatcherUsable ==
    /\ [](\A t \in ConcTasks :
            /\ result[t].kind = "Err" => DOMAIN result[t] = {"kind"}
            /\ (pc[t] = "done" /\ calls[t] # <<>> /\ calls[t][Len(calls[t])].ret.kind = "Err")
                  => result[t] = Err
            /\ \A i \in 1..Len(CELL.value) :
                  ( /\ FailedBefore(t, i) # {}
                    /\ pc[t] = "done"
                    /\ i \in Matching(t)
                    /\ \A j \in Matching(t) : j < i => Answered(t, j, "None") )
                  => i \in CalledPos(t))
    /\ [][CELL.init => (CELL'.init /\ CELL'.value = CELL.value)]_vars

\* A query failed in the plugin; a query dispatched afterwards called the same
\* plugin and got its list.
C13_Witness ==
    \E t \in ConcTasks : \E i \in 1..Len(CELL.value) :
        /\ FailedBefore(t, i) # {}
        /\ pc[t] = "done"
        /\ Answered(t, i, "Some")
        /\ result[t].kind = "SetList"

\* ------------------------------------------------------------------ concurrency claims
\* C11: the registry is loaded at most once, and only after a first query was
\* dispatched, also when several queries are dispatched before the load has
\* finished: every configured plugin is constructed at most once, every
\* dispatch routes over the one registry held by CELL, and CELL is never
\* modified once it is set.
C11_LoadedOnce ==
    /\ [](/\ \A i \in 1..Len(config) : Cardinality(EvAt("from_config", i)) <= 1
          /\ Cardinality(EvOf("loaded")) <= 1
          /\ EvOf("dispatch") = {} =>
                /\ ~CELL.init
                /\ permit = 0
                /\ \A i \in 1..Len(config) : fut[i] = "none"
          /\ \A t \in ConcTasks :
                /\ pc[t] \in {"loop", "done", "activated"} => CELL.init
                /\ \A k \in 1..Len(calls[t]) :
                      /\ calls[t][k].pos <= Len(CELL.value)
                      /\ CELL.value[calls[t][k].pos].name = calls[t][k].plugin)
    /\ [][CELL.init => CELL' = CELL]_vars

\* Two queries were dispatched before the load had finished; the plugin was
\* constructed once and both queries called it.
C11_Witness ==
    /\ \E k1 \in EvAt("dispatch", 1), k2 \in EvAt("dispatch", 2), k3 \in EvOf("loaded") :
          k1 < k3 /\ k2 < k3
    /\ Cardinality(EvAt("from_config", 1)) = 1
    /\ Len(CELL.value) = 1
    /\ \A t \in {1, 2} : pc[t] = "done" /\ Len(calls[t]) = 1

\* t's InputChanged was dispatched before u's.
Older(t, u) ==
    \E k1 \in EvAt("dispatch", t), k2 \in EvAt("dispatch", u) : k1 < k2

\* u's dispatch returned before t's did.
ReturnedBefore(u, t) ==
    \E k1 \in EvAt("return", u), k2 \in EvAt("return", t) : k1 < k2

\* What t's own plugin answers amount to.
OwnResult(t) ==
    LET n == Len(calls[t])
    IN  IF n > 0 /\ calls[t][n].ret.kind = "Some" THEN SetList(calls[t][n].ret.list)
        ELSE IF n > 0 /\ calls[t][n].ret.kind = "Err" THEN Err
        ELSE SetList(<<>>)

\* C17: dispatches in flight together are not ordered against each other and
\* none is cancelled: when the younger query's dispatch has returned first,
\* the older one still returns what its own plugin answers amount to, after
\* the younger result (the state of C17_Witness is reachable).
C17_OvertakenDispatchStillReturns ==
    \A t, u \in ConcTasks :
        (Older(t, u) /\ ReturnedBefore(u, t)) =>
            /\ pc[t] = "done"
            /\ result[t] = OwnResult(t)

\* The SetList of the older query was produced after the SetList of the
\* younger one, and it is the latest result produced.
C17_Witness ==
    \E t, u \in ConcTasks :
        /\ Older(t, u)
        /\ ReturnedBefore(u, t)
        /\ query[t] # query[u]
        /\ result[t].kind = "SetList"
        /\ result[u].kind = "SetList"
        /\ result[t] # result[u]
        /\ events[Len(events)] = Ev("return", t)

====
